---- MODULE Spec2Model ----
(***************************************************************************)
(* A-Puzzle-A-Day solver (src/src/lib.rs).                                  *)
(*                                                                          *)
(* A bitmask (u64 in the source) is modelled as the set of its set bit      *)
(* positions; bit i of the 7x7 board is cell (i \div 7, i % 7).  A shape    *)
(* (Vec<Vec<u8>>) is a sequence of rows, each a sequence of 0/1; the        *)
(* source's 0-based indices i, j are the model's i+1, j+1.                  *)
(***************************************************************************)
EXTENDS Integers, Sequences, FiniteSets, TLC

VARIABLES pc, month, day, order, stack, used_placements, solutions,
          final_solutions, previous,
          cur_piece, shape_idx, off_r, off_c, placements,
          shape, unique_shapes, board_mask, is_size_6_piece_used, verdict

searchVars == <<month, day, order, stack, used_placements, solutions,
                final_solutions, previous>>

placeVars == <<cur_piece, shape_idx, off_r, off_c, placements>>

rotVars == <<shape, unique_shapes>>

judgeVars == <<board_mask, is_size_6_piece_used, verdict>>

vars == <<pc, searchVars, placeVars, rotVars, judgeVars>>

-----------------------------------------------------------------------------
(* Program constants *)

N == 7

Cells == 0 .. (N * N - 1)

NumPieces == 8

-----------------------------------------------------------------------------
(* Generic helpers on sequences *)

Range(s) == {s[i] : i \in DOMAIN s}

Reverse(s) == [i \in 1 .. Len(s) |-> s[Len(s) + 1 - i]]

RECURSIVE SumSeq(_)
SumSeq(s) == IF s = <<>> THEN 0 ELSE Head(s) + SumSeq(Tail(s))

RECURSIVE Flatten(_)
Flatten(ss) == IF ss = <<>> THEN <<>> ELSE Head(ss) \o Flatten(Tail(ss))

(* Keep the first occurrence of every element: HashSet::insert returns true *)
(* only for an element not seen before.                                      *)
Dedup(s) ==
    LET first == SelectSeq([i \in 1 .. Len(s) |-> i],
                           LAMBDA i : \A j \in 1 .. (i - 1) : s[j] # s[i])
    IN  [t \in 1 .. Len(first) |-> s[first[t]]]

-----------------------------------------------------------------------------
(* Piece table and orientation generator *)

get_initial_pieces ==
    << << <<1, 1>>, <<1, 1>>, <<1, 1>> >>,
       << <<1, 1, 0>>, <<1, 0, 0>>, <<1, 1, 0>> >>,
       << <<1, 0, 0>>, <<1, 1, 0>>, <<0, 1, 0>>, <<0, 1, 0>> >>,
       << <<1, 0, 0>>, <<1, 0, 0>>, <<1, 1, 1>> >>,
       << <<1, 0, 0>>, <<1, 1, 0>>, <<1, 1, 0>> >>,
       << <<1, 0, 0>>, <<1, 1, 0>>, <<1, 0, 0>>, <<1, 0, 0>> >>,
       << <<1, 1, 0>>, <<1, 0, 0>>, <<1, 0, 0>>, <<1, 0, 0>> >>,
       << <<1, 1, 0>>, <<0, 1, 0>>, <<0, 1, 1>> >> >>

(* rotated[j][h-1-i] = cur[i][j]  (k = 1)                                   *)
(* rotated[h-1-i][w-1-j] = cur[i][j]  (k = 2)                               *)
(* rotated[w-1-j][i] = cur[i][j]  (k = 3)                                   *)
(* Mutant: the 270-degree case written with the 90-degree index formula *)
rotate_and_flip_Same90(sh, rot_type) ==
    LET current_shape == IF rot_type >= 4
                         THEN [i \in 1 .. Len(sh) |-> Reverse(sh[i])]
                         ELSE sh
        k == rot_type % 4
        h == Len(current_shape)
        w == Len(current_shape[1])
    IN  CASE k = 0 -> current_shape
          [] k = 1 -> [a \in 1 .. w |-> [b \in 1 .. h |-> current_shape[h + 1 - b][a]]]
          [] k = 2 -> [a \in 1 .. h |-> [b \in 1 .. w |-> current_shape[h + 1 - a][w + 1 - b]]]
          [] k = 3 -> [a \in 1 .. w |-> [b \in 1 .. h |-> current_shape[h + 1 - b][a]]]

rotate_and_flip(sh, rot_type) ==
    LET current_shape == IF rot_type >= 4
                         THEN [i \in 1 .. Len(sh) |-> Reverse(sh[i])]
                         ELSE sh
        k == rot_type % 4
        h == Len(current_shape)
        w == Len(current_shape[1])
    IN  CASE k = 0 -> current_shape
          [] k = 1 -> [a \in 1 .. w |-> [b \in 1 .. h |-> current_shape[h + 1 - b][a]]]
          [] k = 2 -> [a \in 1 .. h |-> [b \in 1 .. w |-> current_shape[h + 1 - a][w + 1 - b]]]
          [] k = 3 -> [a \in 1 .. w |-> [b \in 1 .. h |-> current_shape[b][w + 1 - a]]]

get_unique_rotations(sh) ==
    Dedup([t \in 1 .. 8 |-> rotate_and_flip(sh, t - 1)])

-----------------------------------------------------------------------------
(* Bitboard codec *)

board_to_bitmask(board) ==
    {(i - 1) * N + (j - 1) : <<i, j>> \in
        {ij \in (1 .. Len(board)) \X (1 .. N) : board[ij[1]][ij[2]] = 1}}

-----------------------------------------------------------------------------
(* Placement enumerator (the closure passed to map in solve_for_date) *)

(* The offsets the loops "for r in 0..(8 - h)" / "for c in 0..(8 - w)" visit *)
OffsetRange(extent) == 0 .. (N + 1 - extent) - 1

(* is_valid after the two inner loops at offset (r, c) *)
StampValid(sh, r, c) ==
    \A i \in 1 .. Len(sh) : \A j \in 1 .. Len(sh[1]) :
        (r + (i - 1) >= N \/ c + (j - 1) >= N) => sh[i][j] # 1

(* board after the two inner loops at offset (r, c) *)
Stamp(sh, r, c) ==
    [a \in 1 .. N |-> [b \in 1 .. N |->
        IF /\ a - r \in 1 .. Len(sh)
           /\ b - c \in 1 .. Len(sh[1])
           /\ sh[a - r][b - c] = 1
        THEN 1 ELSE 0]]

(* The masks one orientation contributes, in loop order (r outer, c inner) *)
ShapeMasks(sh) ==
    LET nr == Cardinality(OffsetRange(Len(sh)))
        nc == Cardinality(OffsetRange(Len(sh[1])))
        offs == [t \in 1 .. nr * nc |-> <<(t - 1) \div nc, (t - 1) % nc>>]
        valid == SelectSeq(offs, LAMBDA o : StampValid(sh, o[1], o[2]))
    IN  [t \in 1 .. Len(valid) |->
            board_to_bitmask(Stamp(sh, valid[t][1], valid[t][2]))]

(* The distinct masks of one piece in the order they are first inserted *)
InsertionOrder(p_shape) ==
    LET us == get_unique_rotations(p_shape)
    IN  Dedup(Flatten([s \in 1 .. Len(us) |-> ShapeMasks(us[s])]))

-----------------------------------------------------------------------------
(* Union-Find over n elements; the model's value is the parents vector *)

new(n) == [x \in 0 .. (n - 1) |-> -1]

(* find with path compression: the result carries the mutated parents *)
RECURSIVE find(_, _)
find(parents, x) ==
    IF parents[x] < 0 THEN [root |-> x, parents |-> parents]
    ELSE LET r == find(parents, parents[x])
         IN  [root |-> r.root, parents |-> [r.parents EXCEPT ![x] = r.root]]

union(parents, x, y) ==
    LET fx == find(parents, x)
        fy == find(fx.parents, y)
        p == fy.parents
        swap == p[fx.root] > p[fy.root]
        root_x == IF swap THEN fy.root ELSE fx.root
        root_y == IF swap THEN fx.root ELSE fy.root
    IN  IF fx.root # fy.root
        THEN [p EXCEPT ![root_x] = p[root_x] + p[root_y], ![root_y] = root_x]
        ELSE p

size(parents, x) == -parents[find(parents, x).root]

roots(parents) == {i \in DOMAIN parents : parents[i] < 0}

-----------------------------------------------------------------------------
(* Connectivity pruner *)

(* (board_mask >> i) & 1 *)
Bit(mask, i) == IF i \in mask THEN 1 ELSE 0

(* Mutant: the right neighbour is united without the same-row test *)
UnionStep_NoRowTest(uf, mask, i) ==
    IF Bit(mask, i) = 0
    THEN LET u1 == IF i + 1 < N * N /\ Bit(mask, i + 1) = 0
                   THEN union(uf, i, i + 1) ELSE uf
         IN  IF i < N * (N - 1) /\ Bit(mask, i + N) = 0
             THEN union(u1, i, i + N) ELSE u1
    ELSE uf

(* One iteration of the union loop "for i in 0..49" *)
UnionStep(uf, mask, i) ==
    IF Bit(mask, i) = 0
    THEN LET u1 == IF (i + 1) % N # 0 /\ Bit(mask, i + 1) = 0
                   THEN union(uf, i, i + 1) ELSE uf
         IN  IF i < N * (N - 1) /\ Bit(mask, i + N) = 0
             THEN union(u1, i, i + N) ELSE u1
    ELSE uf

(* Iterations lo .. hi of the loop, in ascending order.  The range is halved *)
(* and the guard reads the vector left by the first half (an entry is a     *)
(* negated size or an index below 49), so that the first half is evaluated  *)
(* before the second and the evaluation does not nest once per cell.        *)
RECURSIVE UnionLoop(_, _, _, _)
UnionLoop(uf, mask, lo, hi) ==
    IF lo = hi THEN UnionStep(uf, mask, lo)
    ELSE LET mid == (lo + hi) \div 2
             left == UnionLoop(uf, mask, lo, mid)
         IN  IF left[mid] < N * N
             THEN UnionLoop(left, mask, mid + 1, hi)
             ELSE left

(* Mutant: an island of exactly 5 cells is taken for a dead end *)
IslandOk_RejectsFive(sz, used6) ==
    /\ ~(sz <= 5)
    /\ IF ~used6
       THEN ~(sz % 5 # 0 /\ (sz < 6 \/ (sz - 6) % 5 # 0))
       ELSE ~(sz % 5 # 0)

(* Mutant: the "6 plus a multiple of 5" case is forgotten *)
IslandOk_NoSixCase(sz, used6) ==
    /\ ~(sz < 5)
    /\ ~(sz % 5 # 0)

(* The per-island test of the second loop; FALSE is "return false" *)
IslandOk(sz, used6) ==
    /\ ~(sz < 5)
    /\ IF ~used6
       THEN ~(sz % 5 # 0 /\ (sz < 6 \/ (sz - 6) % 5 # 0))
       ELSE ~(sz % 5 # 0)

judge_connected_component(mask, used6) ==
    LET uf == UnionLoop(new(N * N), mask, 0, N * N - 1)
    IN  \A root \in roots(uf) :
            Bit(mask, root) = 0 => IslandOk(size(uf, root), used6)
-----------------------------------------------------------------------------
(* solve_for_date: precomputation *)

initial_pieces == get_initial_pieces

piece_sizes ==
    [k \in 1 .. Len(initial_pieces) |->
        SumSeq([i \in 1 .. Len(initial_pieces[k]) |-> SumSeq(initial_pieces[k][i])])]

(* position(|&s| s == 6), as a 0-based piece index *)
size_6_piece_index ==
    (CHOOSE k \in DOMAIN piece_sizes :
        piece_sizes[k] = 6 /\ \A j \in 1 .. (k - 1) : piece_sizes[j] # 6) - 1

(* placements.into_iter().collect(): a HashSet is iterated in an order the  *)
(* program does not control.  Order o of the model is the insertion order    *)
(* rotated by a multiple of 37 and, for odd o, reversed.                     *)
Permute(s, o) ==
    LET n == Len(s)
        rot == [i \in 1 .. n |-> s[((i - 1 + (o \div 2) * 37) % n) + 1]]
    IN  IF o % 2 = 0 THEN rot ELSE Reverse(rot)

MaxOrder == 1

Orders == 0 .. MaxOrder

PlacementsInserted ==
    [k \in 1 .. Len(initial_pieces) |-> InsertionOrder(initial_pieces[k])]

(* all_piece_placements, one table per iteration order *)
all_piece_placements ==
    [o \in Orders |->
        [k \in 1 .. Len(initial_pieces) |-> Permute(PlacementsInserted[k], o)]]

-----------------------------------------------------------------------------
(* solve_for_date: board initialisation *)

month_r(m) == (m - 1) \div 6
month_c(m) == (m - 1) % 6
day_r(d) == (d - 1) \div 7 + 2
day_c(d) == (d - 1) % 7

StaticHoles == {<<0, 6>>, <<1, 6>>, <<6, 3>>, <<6, 4>>, <<6, 5>>, <<6, 6>>}

initial_board(m, d) ==
    [a \in 1 .. N |-> [b \in 1 .. N |->
        IF \/ <<a - 1, b - 1>> \in StaticHoles
           \/ <<a - 1, b - 1>> = <<month_r(m), month_c(m)>>
           \/ <<a - 1, b - 1>> = <<day_r(d), day_c(d)>>
        THEN 1 ELSE 0]]

initial_board_mask(m, d) == board_to_bitmask(initial_board(m, d))

-----------------------------------------------------------------------------
(* find_solutions_recursive as a call stack.  A frame is one activation:    *)
(* its by-value arguments, the candidates of its for loop that are still to *)
(* come and pass both tests (lines 180 and 185), and whether it is waiting  *)
(* at line 192 for the pop that follows the recursive call.                 *)

new_is_size_6_used(piece_idx, used6) == used6 \/ (piece_idx = size_6_piece_index)

(* Mutant: the overlap test of line 180 is missing *)
Accepts_NoOverlapTest(piece_idx, mask, used6, placement_mask) ==
    judge_connected_component(mask \cup placement_mask,
                              new_is_size_6_used(piece_idx, used6))

Accepts(piece_idx, mask, used6, placement_mask) ==
    /\ mask \cap placement_mask = {}
    /\ judge_connected_component(mask \cup placement_mask,
                                 new_is_size_6_used(piece_idx, used6))

Enter(piece_idx, mask, used6, o) ==
    [piece_idx |-> piece_idx,
     current_board_mask |-> mask,
     is_size_6_piece_used |-> used6,
     pending |-> IF piece_idx = NumPieces THEN <<>>
                 ELSE SelectSeq(all_piece_placements[o][piece_idx + 1],
                                LAMBDA pm : Accepts(piece_idx, mask, used6, pm)),
     at |-> "loop"]

Top == stack[Len(stack)]

Caller == SubSeq(stack, 1, Len(stack) - 1)

(* Mutant: the search is abandoned at the first complete assignment *)
Record_StopAtFirst ==
    /\ pc = "search"
    /\ stack # <<>>
    /\ Top.piece_idx = NumPieces
    /\ solutions' = Append(solutions, used_placements)
    /\ stack' = <<>>
    /\ UNCHANGED <<pc, month, day, order, used_placements, final_solutions, previous>>
    /\ UNCHANGED <<placeVars, rotVars, judgeVars>>

(* line 175: the base case records a copy and returns *)
Record ==
    /\ pc = "search"
    /\ stack # <<>>
    /\ Top.piece_idx = NumPieces
    /\ solutions' = Append(solutions, used_placements)
    /\ stack' = Caller
    /\ UNCHANGED <<pc, month, day, order, used_placements, final_solutions, previous>>
    /\ UNCHANGED <<placeVars, rotVars, judgeVars>>

(* lines 178-191: the loop reaches its next accepted candidate, pushes it   *)
(* and calls itself for the next piece                                      *)
Place ==
    /\ pc = "search"
    /\ stack # <<>>
    /\ Top.piece_idx < NumPieces
    /\ Top.at = "loop"
    /\ Top.pending # <<>>
    /\ LET placement_mask == Head(Top.pending)
           new_board_mask == Top.current_board_mask \cup placement_mask
           new_used6 == new_is_size_6_used(Top.piece_idx, Top.is_size_6_piece_used)
       IN  /\ used_placements' = Append(used_placements, placement_mask)
           /\ stack' = Append(
                  [stack EXCEPT ![Len(stack)] =
                      [Top EXCEPT !.pending = Tail(Top.pending), !.at = "called"]],
                  Enter(Top.piece_idx + 1, new_board_mask, new_used6, order))
    /\ UNCHANGED <<pc, month, day, order, solutions, final_solutions, previous>>
    /\ UNCHANGED <<placeVars, rotVars, judgeVars>>

(* Mutant: the pop of line 192 is missing *)
Backtrack_NoPop ==
    /\ pc = "search"
    /\ stack # <<>>
    /\ Top.at = "called"
    /\ used_placements' = used_placements
    /\ stack' = [stack EXCEPT ![Len(stack)] = [Top EXCEPT !.at = "loop"]]
    /\ UNCHANGED <<pc, month, day, order, solutions, final_solutions, previous>>
    /\ UNCHANGED <<placeVars, rotVars, judgeVars>>

(* line 192: back from the recursive call, undo the placement *)
Backtrack ==
    /\ pc = "search"
    /\ stack # <<>>
    /\ Top.at = "called"
    /\ used_placements' = SubSeq(used_placements, 1, Len(used_placements) - 1)
    /\ stack' = [stack EXCEPT ![Len(stack)] = [Top EXCEPT !.at = "loop"]]
    /\ UNCHANGED <<pc, month, day, order, solutions, final_solutions, previous>>
    /\ UNCHANGED <<placeVars, rotVars, judgeVars>>

(* line 196: the loop is exhausted, the activation returns *)
LoopEnd ==
    /\ pc = "search"
    /\ stack # <<>>
    /\ Top.piece_idx < NumPieces
    /\ Top.at = "loop"
    /\ Top.pending = <<>>
    /\ stack' = Caller
    /\ UNCHANGED <<pc, month, day, order, used_placements, solutions,
                   final_solutions, previous>>
    /\ UNCHANGED <<placeVars, rotVars, judgeVars>>

-----------------------------------------------------------------------------
(* solve_for_date: rendering of the raw solutions (lines 268-282) *)

(* Mutant: the cell gets the 0-based piece_id, without the "+ 1" *)
RenderBoard_ZeroBased(masks, m, d) ==
    [a \in 1 .. N |-> [b \in 1 .. N |->
        IF \/ <<a - 1, b - 1>> = <<month_r(m), month_c(m)>>
           \/ <<a - 1, b - 1>> = <<day_r(d), day_c(d)>>
        THEN -1
        ELSE LET i == (a - 1) * N + (b - 1)
                 hit == {piece_id \in 1 .. Len(masks) : i \in masks[piece_id]}
             IN  IF hit = {} THEN 0
                 ELSE (CHOOSE piece_id \in hit : \A q \in hit : q <= piece_id) - 1]]

(* board[i / 7][i % 7] = piece_id + 1 for every set bit of every mask, in   *)
(* piece order (a later piece overwrites), then -1 on the two date cells;   *)
(* the model's piece_id is already 1-based                                  *)
RenderBoard(masks, m, d) ==
    [a \in 1 .. N |-> [b \in 1 .. N |->
        IF \/ <<a - 1, b - 1>> = <<month_r(m), month_c(m)>>
           \/ <<a - 1, b - 1>> = <<day_r(d), day_c(d)>>
        THEN -1
        ELSE LET i == (a - 1) * N + (b - 1)
                 hit == {piece_id \in 1 .. Len(masks) : i \in masks[piece_id]}
             IN  IF hit = {} THEN 0
                 ELSE CHOOSE piece_id \in hit : \A q \in hit : q <= piece_id]]

Render ==
    /\ pc = "search"
    /\ stack = <<>>
    /\ final_solutions' =
           [s \in 1 .. Len(solutions) |-> RenderBoard(solutions[s], month, day)]
    /\ pc' = "done"
    /\ UNCHANGED <<month, day, order, stack, used_placements, solutions, previous>>
    /\ UNCHANGED <<placeVars, rotVars, judgeVars>>

-----------------------------------------------------------------------------
(* The placement enumerator of one piece, one offset (r, c) per step        *)
(* (lines 213-236)                                                          *)

CurShapes == get_unique_rotations(initial_pieces[cur_piece + 1])

CurShape == CurShapes[shape_idx]

Slide ==
    /\ pc = "slide"
    /\ shape_idx <= Len(CurShapes)
    /\ off_r \in OffsetRange(Len(CurShape))
    /\ off_c \in OffsetRange(Len(CurShape[1]))
    /\ placements' =
           IF StampValid(CurShape, off_r, off_c)
           THEN placements \cup {board_to_bitmask(Stamp(CurShape, off_r, off_c))}
           ELSE placements
    /\ IF off_c + 1 \in OffsetRange(Len(CurShape[1]))
       THEN /\ off_c' = off_c + 1
            /\ UNCHANGED <<off_r, shape_idx>>
       ELSE IF off_r + 1 \in OffsetRange(Len(CurShape))
            THEN /\ off_r' = off_r + 1
                 /\ off_c' = 0
                 /\ UNCHANGED shape_idx
            ELSE /\ shape_idx' = shape_idx + 1
                 /\ off_r' = 0
                 /\ off_c' = 0
    /\ UNCHANGED <<pc, cur_piece>>
    /\ UNCHANGED <<searchVars, rotVars, judgeVars>>

(* line 235: placements.into_iter().collect() *)
Collect ==
    /\ pc = "slide"
    /\ shape_idx > Len(CurShapes)
    /\ pc' = "placed"
    /\ UNCHANGED placeVars
    /\ UNCHANGED <<searchVars, rotVars, judgeVars>>

-----------------------------------------------------------------------------
(* The orientation generator applied to one shape *)

Rotations ==
    /\ pc = "rotate"
    /\ unique_shapes' = get_unique_rotations(shape)
    /\ pc' = "rotated"
    /\ UNCHANGED shape
    /\ UNCHANGED <<searchVars, placeVars, judgeVars>>

-----------------------------------------------------------------------------
(* The connectivity pruner applied to one board *)

Judge ==
    /\ pc = "judge"
    /\ verdict' = judge_connected_component(board_mask, is_size_6_piece_used)
    /\ pc' = "judged"
    /\ UNCHANGED <<board_mask, is_size_6_piece_used>>
    /\ UNCHANGED <<searchVars, placeVars, rotVars>>

-----
(* The inputs of one call *)

Dates == {<<4, 6>>, <<7, 6>>}

NoSearch ==
    /\ month = 0 /\ day = 0 /\ order = 0 /\ stack = <<>>
    /\ used_placements = <<>> /\ solutions = <<>>
    /\ final_solutions = <<>> /\ previous = <<>>

NoPlace ==
    /\ cur_piece = 0 /\ shape_idx = 0 /\ off_r = 0 /\ off_c = 0 /\ placements = {}

NoRot == shape = <<>> /\ unique_shapes = <<>>

NoJudge == board_mask = {} /\ is_size_6_piece_used = FALSE /\ verdict = FALSE

Init ==
    /\ pc = "search"
    /\ \E md \in Dates : month = md[1] /\ day = md[2]
    /\ order \in Orders
    /\ stack = <<Enter(0, initial_board_mask(month, day), FALSE, order)>>
    /\ used_placements = <<>>
    /\ solutions = <<>>
    /\ final_solutions = <<>>
    /\ previous = <<>>
    /\ NoPlace /\ NoRot /\ NoJudge

Next == Record \/ Place \/ Backtrack \/ LoopEnd \/ Render

Spec == Init /\ [][Next]_vars

(* A second call for the same date, with the iteration order its own        *)
(* HashSets happen to have; previous remembers what the first call returned *)
Again ==
    /\ pc = "done"
    /\ previous = <<>>
    /\ previous' = <<Range(final_solutions)>>
    /\ \E o \in Orders :
          /\ order' = o
          /\ stack' = <<Enter(0, initial_board_mask(month, day), FALSE, o)>>
    /\ used_placements' = <<>>
    /\ solutions' = <<>>
    /\ final_solutions' = <<>>
    /\ pc' = "search"
    /\ UNCHANGED <<month, day>>
    /\ UNCHANGED <<placeVars, rotVars, judgeVars>>

NextTwice == Next \/ Again

SpecTwice == Init /\ [][NextTwice]_vars

(* The placement enumerator, for each piece *)
InitPlace ==
    /\ pc = "slide"
    /\ cur_piece \in 0 .. (NumPieces - 1)
    /\ shape_idx = 1
    /\ off_r = 0
    /\ off_c = 0
    /\ placements = {}
    /\ NoSearch /\ NoRot /\ NoJudge

NextPlace == Slide \/ Collect

SpecPlace == InitPlace /\ [][NextPlace]_vars

(* The orientation generator, for every grid of at most MaxShapeH rows and  *)
(* MaxShapeW columns and for the eight pieces                               *)
MaxShapeH == 3

MaxShapeW == 3

Shapes ==
    Range(initial_pieces) \cup
    UNION {[1 .. h -> [1 .. w -> {0, 1}]] : <<h, w>> \in (1 .. MaxShapeH) \X (1 .. MaxShapeW)}

InitRot ==
    /\ pc = "rotate"
    /\ shape \in Shapes
    /\ unique_shapes = <<>>
    /\ NoSearch /\ NoPlace /\ NoJudge

NextRot == Rotations

SpecRot == InitRot /\ [][NextRot]_vars

(* The pruner, for every board whose empty cells lie among the last         *)
(* WindowLen cells                                                          *)
WindowLen == 13

Window == (N * N - WindowLen) .. (N * N - 1)

InitJudge ==
    /\ pc = "judge"
    /\ board_mask \in {Cells \ e : e \in SUBSET Window}
    /\ is_size_6_piece_used \in BOOLEAN
    /\ verdict = FALSE
    /\ NoSearch /\ NoPlace /\ NoRot

NextJudge == Judge

SpecJudge == InitJudge /\ [][NextJudge]_vars
-----------------------------------------------------------------------------
(* What the puzzle asks for, stated without the program's data structures   *)

blocked(m, d) ==
    {rc[1] * N + rc[2] : rc \in StaticHoles \cup
        {<<(m - 1) \div 6, (m - 1) % 6>>, <<(d - 1) \div 7 + 2, (d - 1) % 7>>}}

(* The occupied cells of piece k (1-based), as coordinates *)
PieceCells(k) ==
    {<<ij[1] - 1, ij[2] - 1>> : ij \in
        {ij \in (1 .. Len(initial_pieces[k])) \X (1 .. Len(initial_pieces[k][1])) :
            initial_pieces[k][ij[1]][ij[2]] = 1}}

(* The eight rotations/reflections of the plane: the signed permutation     *)
(* matrices <<a, b, c, d>> mapping (i, j) to (a*i + b*j, c*i + d*j)         *)
Isometries ==
    {m \in {-1, 0, 1} \X {-1, 0, 1} \X {-1, 0, 1} \X {-1, 0, 1} :
        /\ m[1] * m[1] + m[2] * m[2] = 1
        /\ m[3] * m[3] + m[4] * m[4] = 1
        /\ m[1] * m[3] + m[2] * m[4] = 0}

Moved(cells, m, dr, dc) ==
    {<<m[1] * ij[1] + m[2] * ij[2] + dr, m[3] * ij[1] + m[4] * ij[2] + dc>> :
        ij \in cells}

Inside(cells) == \A rc \in cells : rc[1] \in 0 .. (N - 1) /\ rc[2] \in 0 .. (N - 1)

Shifts == (1 - N) .. (2 * N - 2)

(* Every orientation of piece k at every position fully inside the board *)
LegalPlacements(k) ==
    {{rc[1] * N + rc[2] : rc \in Moved(PieceCells(k), mdd[1], mdd[2], mdd[3])} :
        mdd \in {x \in Isometries \X Shifts \X Shifts :
                    Inside(Moved(PieceCells(k), x[1], x[2], x[3]))}}

LegalSets == [k \in 1 .. NumPieces |-> LegalPlacements(k)]

(* The placement sets the program computes *)
CodeSets == [k \in 1 .. NumPieces |-> Range(PlacementsInserted[k])]

(* s assigns to every piece one mask of its set P[k]; the masks and the     *)
(* holes are pairwise disjoint and leave no cell uncovered                  *)
IsExactCover(s, P, holes) ==
    /\ Len(s) = NumPieces
    /\ \A k \in 1 .. NumPieces : s[k] \in P[k] /\ s[k] \cap holes = {}
    /\ \A j, k \in 1 .. NumPieces : j # k => s[j] \cap s[k] = {}
    /\ holes \cup UNION Range(s) = Cells

(* All exact covers over the sets P, found cell by cell: the lowest empty   *)
(* cell is covered by exactly one placement of one piece not yet used, and  *)
(* it is the lowest cell of that placement.  idx[x][k] holds the masks of   *)
(* piece k whose lowest cell is x; free are the pieces not yet used and     *)
(* chosen the <<piece, mask>> pairs so far.                                 *)
LowestCell(mask) == CHOOSE x \in mask : \A y \in mask : x <= y

LowestEmpty(filled) ==
    CHOOSE x \in Cells : x \notin filled /\ \A y \in 0 .. (x - 1) : y \in filled

ByLowestCell(P) ==
    [x \in Cells |-> [k \in 1 .. NumPieces |-> {p \in P[k] : LowestCell(p) = x}]]

RECURSIVE Complete(_, _, _, _)
Complete(idx, filled, free, chosen) ==
    IF filled = Cells
    THEN IF free = {}
         THEN {[k \in 1 .. NumPieces |-> (CHOOSE kp \in chosen : kp[1] = k)[2]]}
         ELSE {}
    ELSE UNION {Complete(idx, filled \cup kp[2], free \ {kp[1]}, chosen \cup {kp}) :
                kp \in UNION {{k} \X {p \in idx[LowestEmpty(filled)][k] :
                                          p \cap filled = {}} : k \in free}}

LegalIndex == ByLowestCell(LegalSets)

CodeIndex == ByLowestCell(CodeSets)

ExactCovers(idx, holes) == Complete(idx, holes, 1 .. NumPieces, {})

-----
(* C1: when solve_for_date is done, every exact cover of the board by the   *)
(* eight pieces, each in any orientation at any position inside the grid,   *)
(* is among the recorded solutions.                                         *)
C1_EveryExactCoverReturned ==
    pc = "done" =>
        \A cover \in ExactCovers(LegalIndex, blocked(month, day)) :
            /\ cover \in Range(solutions)
            /\ RenderBoard(cover, month, day) \in Range(final_solutions)

(* C2: every recorded solution has exactly 8 masks, the k-th from the       *)
(* placement set of piece k; the masks are pairwise disjoint, disjoint from *)
(* the blocked mask, and together with it cover all 49 cells.               *)
C2_SolutionsAreExactCovers ==
    \A s \in Range(solutions) :
        IsExactCover(s, CodeSets, initial_board_mask(month, day))

C2_Witness == pc = "done" /\ solutions # <<>>

(* C9: at every entry to find_solutions_recursive at index k and at every   *)
(* return from a recursive call, the placement sequence has as many entries *)
(* as the index of the call, the filled-mask of every activation is the OR  *)
(* of the blocked mask and the placements chosen before it, and the blocked *)
(* mask and the chosen placements are pairwise disjoint.                    *)
C9_SearchInvariant ==
    pc = "search" /\ stack # <<>> =>
        LET holes == initial_board_mask(month, day)
            depth == IF Top.at = "called" THEN Top.piece_idx + 1 ELSE Top.piece_idx
        IN  /\ Len(used_placements) = depth
            /\ \A f \in 1 .. Len(stack) :
                   /\ stack[f].piece_idx = f - 1
                   /\ stack[f].current_board_mask =
                          holes \cup UNION {used_placements[i] : i \in 1 .. (f - 1)}
            /\ \A i \in 1 .. Len(used_placements) :
                   /\ used_placements[i] \cap holes = {}
                   /\ \A j \in 1 .. (i - 1) :
                          used_placements[i] \cap used_placements[j] = {}

C9_Witness ==
    /\ pc = "search"
    /\ stack # <<>>
    /\ Top.at = "called"
    /\ Top.piece_idx = 5
    /\ solutions # <<>>

(* C3: a second call for the same date, whatever the order in which its     *)
(* placement sets are iterated, returns the same set of tilings as the      *)
(* first call.                                                              *)
C3_SameTilingsOnSecondCall ==
    pc = "done" /\ previous # <<>> => Range(final_solutions) = previous[1]

C3_Witness ==
    /\ pc = "done"
    /\ previous # <<>>
    /\ order = 1
    /\ final_solutions # <<>>

(* The 1-based indices of the masks that cover a cell *)
Covering(masks, cell) == {k \in 1 .. Len(masks) : cell \in masks[k]}

(* C4 as claimed: one value outside 1..8 marks all eight holes of every     *)
(* rendered board, and every other cell holds the 1-based index of the      *)
(* piece whose mask covers it.                                              *)
C4_OneSentinelForAllHoles ==
    pc = "done" =>
        \E sentinel \in (-128 .. 127) \ (1 .. NumPieces) :
            \A s \in 1 .. Len(final_solutions) : \A cell \in Cells :
                LET v == final_solutions[s][(cell \div N) + 1][(cell % N) + 1]
                IN  IF cell \in blocked(month, day)
                    THEN v = sentinel
                    ELSE Covering(solutions[s], cell) = {v}

(* C4 as amended: every cell of a rendered board holds the 1-based index of *)
(* the piece whose mask covers it, or -1 on the two date holes, or 0 on the *)
(* six static holes.                                                        *)
C4_IndexOrDateMarkOrZero ==
    pc = "done" =>
        /\ Len(final_solutions) = Len(solutions)
        /\ \A s \in 1 .. Len(final_solutions) : \A cell \in Cells :
               LET v == final_solutions[s][(cell \div N) + 1][(cell % N) + 1]
                   rc == <<cell \div N, cell % N>>
               IN  IF rc \in StaticHoles THEN v = 0
                   ELSE IF cell \in blocked(month, day) THEN v = -1
                   ELSE Covering(solutions[s], cell) = {v}

C4_Witness == pc = "done" /\ Len(final_solutions) >= 2

(* C5: the placement set computed for a piece is the set of all its         *)
(* orientations at all positions where its cells lie inside the board.      *)
C5_PlacementSetIsEveryLegalPlacement ==
    pc = "placed" => placements = LegalPlacements(cur_piece + 1)

(* The flag the search passes to the pruner once pieces 0 .. k-1 are placed *)
FlagAfter(k) == \E i \in 0 .. (k - 1) : i = size_6_piece_index

(* C6: the pruner never rejects a completable board: every filled-mask the  *)
(* search passes to it on the way to an exact cover over the program's      *)
(* placement sets is accepted, and the search records exactly those covers  *)
(* (what it would record with a pruner that always accepts).                *)
C6_PrunerLosesNoSolution ==
    pc = "done" =>
        LET holes == initial_board_mask(month, day)
            covers == ExactCovers(CodeIndex, holes)
        IN  /\ Range(solutions) = covers
            /\ \A cover \in covers : \A k \in 1 .. NumPieces :
                   judge_connected_component(
                       holes \cup UNION {cover[i] : i \in 1 .. k}, FlagAfter(k))

C6_Witness == pc = "done" /\ Len(solutions) >= 2 /\ order = 0

-----------------------------------------------------------------------------
(* The empty regions of a board, from the geometry of the grid *)

Adjacent(x, y) ==
    \/ x \div N = y \div N /\ (x - y = 1 \/ y - x = 1)
    \/ x % N = y % N /\ (x - y = N \/ y - x = N)

RECURSIVE Grow(_, _)
Grow(region, empty) ==
    LET more == region \cup {y \in empty : \E x \in region : Adjacent(x, y)}
    IN  IF more = region THEN region ELSE Grow(more, empty)

Regions(mask) == {Grow({x}, Cells \ mask) : x \in Cells \ mask}

Feasible(sz, used6) ==
    /\ sz >= 5
    /\ IF used6
       THEN \E a \in 0 .. N * N : sz = 5 * a
       ELSE \E a \in 0 .. N * N : sz = 5 * a \/ sz = 5 * a + 6

(* C7: judge_connected_component returns true exactly when every maximal    *)
(* 4-connected region of empty cells has at least 5 cells and a size that   *)
(* is a multiple of 5 or, while the size-6 piece is unused, a multiple of 5 *)
(* plus 6.                                                                  *)
C7_JudgeIsTheRegionRule ==
    pc = "judged" =>
        verdict = \A region \in Regions(board_mask) :
                      Feasible(Cardinality(region), is_size_6_piece_used)

C7_Witness ==
    /\ pc = "judged"
    /\ verdict
    /\ Cardinality(Regions(board_mask)) = 2
    /\ {N * N - N - 1, N * N - N} \cap board_mask = {}

(* The sizes of the empty regions of a board *)
RegionSizes(mask) == {Cardinality(region) : region \in Regions(mask)}

(* C8 as claimed: with the size-6 piece unused, a board with an empty       *)
(* region of 1 to 4 cells is rejected and a board whose only empty region   *)
(* has 5, 6, 11 or 12 cells is accepted.                                    *)
C8_AcceptsFiveSixElevenTwelve ==
    pc = "judged" /\ ~is_size_6_piece_used =>
        /\ RegionSizes(board_mask) \cap (1 .. 4) # {} => ~verdict
        /\ /\ Cardinality(Regions(board_mask)) = 1
           /\ RegionSizes(board_mask) \subseteq {5, 6, 11, 12}
           => verdict

(* C8 as amended: with the size-6 piece unused, a board with an empty       *)
(* region of 1 to 4 cells is rejected, a board whose only empty region has  *)
(* 5, 6 or 11 cells is accepted, and one whose only empty region has 12     *)
(* cells is rejected.                                                       *)
C8_AcceptsFiveSixEleven ==
    pc = "judged" /\ ~is_size_6_piece_used =>
        /\ RegionSizes(board_mask) \cap (1 .. 4) # {} => ~verdict
        /\ /\ Cardinality(Regions(board_mask)) = 1
           /\ RegionSizes(board_mask) \subseteq {5, 6, 11}
           => verdict
        /\ RegionSizes(board_mask) = {12} => ~verdict

C8_Witness ==
    /\ pc = "judged"
    /\ ~is_size_6_piece_used
    /\ RegionSizes(board_mask) = {11}
    /\ Cardinality(Regions(board_mask)) = 1
    /\ verdict

-----------------------------------------------------------------------------
(* The symmetries of the square, generated by the transposition and the     *)
(* exchange of top and bottom                                               *)

Transpose(sh) == [a \in 1 .. Len(sh[1]) |-> [b \in 1 .. Len(sh) |-> sh[b][a]]]

UpsideDown(sh) == [a \in 1 .. Len(sh) |-> sh[Len(sh) + 1 - a]]

RECURSIVE Orbit(_)
Orbit(S) ==
    LET more == S \cup {Transpose(x) : x \in S} \cup {UpsideDown(x) : x \in S}
    IN  IF more = S THEN S ELSE Orbit(more)

(* The seven symmetries other than the identity *)
NonTrivialImages(sh) ==
    LET T(x) == Transpose(x)
        U(x) == UpsideDown(x)
    IN  <<T(sh), U(sh), T(U(sh)), U(T(sh)), T(U(T(sh))), U(T(U(sh))), T(U(T(U(sh))))>>

FullySymmetric(sh) == \A i \in 1 .. 7 : NonTrivialImages(sh)[i] = sh

FullyAsymmetric(sh) == \A i \in 1 .. 7 : NonTrivialImages(sh)[i] # sh

(* C10: get_unique_rotations returns exactly the distinct images of the     *)
(* shape under the 8 symmetries of the square, each once: at most 8 shapes, *)
(* 1 for a fully symmetric shape, 8 for a fully asymmetric one.             *)
C10_UniqueRotationsAreTheOrbit ==
    pc = "rotated" =>
        /\ Range(unique_shapes) = Orbit({shape})
        /\ \A i, j \in 1 .. Len(unique_shapes) :
               i # j => unique_shapes[i] # unique_shapes[j]
        /\ Len(unique_shapes) <= 8
        /\ FullySymmetric(shape) => Len(unique_shapes) = 1
        /\ FullyAsymmetric(shape) => Len(unique_shapes) = 8

C10_Witness ==
    /\ pc = "rotated"
    /\ FullyAsymmetric(shape)
    /\ Len(unique_shapes) = 8
    /\ Len(shape) # Len(shape[1])

====
